---- MODULE Spec2Model ----
(***************************************************************************)
(* Accounts-receivable optimiser (src/optimiser.py): the one-month linear *)
(* program optimise_month, the ageing step roll_forward and the           *)
(* multi-month loop simulate.                                              *)
(*                                                                         *)
(* Numbers.  Python floats are modelled as fixed-point numbers.  Money is  *)
(* an integer count of quanta, one quantum = 10^-FracDigits currency      *)
(* unit; a recovery fraction or KPI ratio is an integer count of          *)
(* 10^-FracDigits (what round(x, 4) keeps).  A product balance * fraction  *)
(* is rounded to the nearest quantum, ties to even, as a float product is  *)
(* rounded to the nearest representable value.  Caller inputs are whole    *)
(* currency units, so every product of the first period is exact.         *)
(* Targets are rationals [n, d].  Weights are the source's weights times   *)
(* two (1, 1.5, 2, 4 -> 2, 3, 4, 8); scaling the objective by a positive   *)
(* factor does not change the minimisers.                                  *)
(***************************************************************************)
EXTENDS Integers, Sequences, FiniteSets, TLC


\* ---------------------------------------------------------------- bounds
MaxTotal == 3
TDen == 3
MaxMonths == 2

\* ------------------------------------------------------- program constants
FracDigits == 4
CashDigits == 2

RECURSIVE Pow10(_)
Pow10(n) == IF n = 0 THEN 1 ELSE 10 * Pow10(n - 1)

FracScale == Pow10(FracDigits)
MoneyScale == FracScale
Epsilon == [n |-> 1, d |-> 100 * FracScale]

Overdue == <<"31_60", "61_90", "91_120", "120_plus">>
OverdueSet == {Overdue[i] : i \in 1..Len(Overdue)}
RequiredKeys == <<"current", "31_60", "61_90", "91_120", "120_plus">>
FiveBuckets == {RequiredKeys[i] : i \in 1..Len(RequiredKeys)}
SixBuckets == FiveBuckets \cup {"1_30"}

DefaultWeights ==
  [b \in OverdueSet |->
     CASE b = "31_60" -> 2 [] b = "61_90" -> 3 [] b = "91_120" -> 4 [] OTHER -> 8]

\* ------------------------------------------------------------- arithmetic
Min(a, b) == IF a <= b THEN a ELSE b
Max(a, b) == IF a >= b THEN a ELSE b

RECURSIVE SumOver(_, _)
SumOver(f, S) ==
  IF S = {} THEN 0
  ELSE LET k == CHOOSE x \in S : TRUE IN f[k] + SumOver(f, S \ {k})

\* sum(bal.values())
Total(bal) == SumOver(bal, DOMAIN bal)

\* Round to nearest, ties to even, given quotient q and remainder r modulo den.
HalfEven(q, r, den) ==
  IF 2 * r < den THEN q
  ELSE IF 2 * r > den THEN q + 1
  ELSE IF q % 2 = 0 THEN q ELSE q + 1

\* Long division: quotient and remainder of num * 10^digits by den.
RECURSIVE LongDiv(_, _, _)
LongDiv(num, den, digits) ==
  IF digits = 0 THEN [q |-> num \div den, r |-> num % den]
  ELSE LET p == LongDiv(num, den, digits - 1)
       IN [q |-> 10 * p.q + ((10 * p.r) \div den), r |-> (10 * p.r) % den]

\* round(num / den, digits) as a count of 10^-digits, for num >= 0, den > 0.
Round(num, den, digits) ==
  LET p == LongDiv(num, den, digits) IN HalfEven(p.q, p.r, den)

\* Float product amount * fraction, fraction in 10^-FracDigits.
FMul(amount, frac) ==
  HalfEven((amount * frac) \div FracScale, (amount * frac) % FracScale, FracScale)

\* ------------------------------------------------------ optimise_month (LP)
\* Scaled right-hand side of constraint 2: the smaller of max_120p_ratio * total
\* and every supplied max_120p_amount, both times max_120p_ratio.d.
CapLimit(total, max_120p_ratio, caps) ==
  LET byRatio == max_120p_ratio.n * total
      byAmount == {max_120p_ratio.d * a : a \in caps}
  IN IF \E c \in byAmount : c < byRatio
     THEN CHOOSE c \in byAmount : \A c2 \in byAmount : c <= c2
     ELSE byRatio

\* Constraint 2 as a lower bound on r["120_plus"]: numerator over
\* max_120p_ratio.d * bal["120_plus"].
LowerNum(bal, max_120p_ratio, caps) ==
  Max(0, max_120p_ratio.d * bal["120_plus"]
           - CapLimit(Total(bal), max_120p_ratio, caps))

\* Constraint 1 taken as a strict inequality.
Feasible_Strict(bal, target_current, max_120p_ratio, caps) ==
  /\ CapLimit(Total(bal), max_120p_ratio, caps) >= 0
  /\ target_current.d * SumOver(bal, FiveBuckets) > target_current.n * Total(bal)

\* The LP has a point in the box [0,1]^4: constraint 2 can hold at r = 1 and
\* constraint 1 holds when every overdue bucket is collected in full.
Feasible(bal, target_current, max_120p_ratio, caps) ==
  /\ CapLimit(Total(bal), max_120p_ratio, caps) >= 0
  /\ target_current.d * SumOver(bal, FiveBuckets) >= target_current.n * Total(bal)

\* Coverage is counted in units of 1 / (target_current.d * max_120p_ratio.d)
\* quantum.  What each bucket can still add once r["120_plus"] sits at its
\* lower bound:
Capacity(bal, target_current, max_120p_ratio, caps) ==
  [b \in OverdueSet |->
     IF b = "120_plus"
     THEN target_current.d
            * (max_120p_ratio.d * bal[b] - LowerNum(bal, max_120p_ratio, caps))
     ELSE target_current.d * max_120p_ratio.d * bal[b]]

\* projected_current built without bal["current"].
Demand_NoCurrent(bal, target_current, max_120p_ratio, caps) ==
  max_120p_ratio.d * (target_current.n * Total(bal))
    - target_current.d * LowerNum(bal, max_120p_ratio, caps)

\* What constraint 1 still asks for at that point.
Demand(bal, target_current, max_120p_ratio, caps) ==
  max_120p_ratio.d * (target_current.n * Total(bal) - target_current.d * bal["current"])
    - target_current.d * LowerNum(bal, max_120p_ratio, caps)

\* The orders in which a minimiser fills the buckets: cheapest weight per
\* unit of balance first.  Buckets of equal cost per unit may come in either
\* order: the solver returns some optimal vertex, the source does not say which.
Orders == {p \in [1..Len(Overdue) -> OverdueSet] :
             \A i, j \in 1..Len(Overdue) : i # j => p[i] # p[j]}

Position(p, b) == CHOOSE i \in 1..Len(Overdue) : p[i] = b

\* The objective left out: any vertex of the feasible region may come back.
CostOrdered_Any(bal, weights, p) == TRUE

\* Empty buckets take nothing wherever they stand; they are kept last, in the
\* source's order, so that each vertex is listed once.
CostOrdered(bal, weights, p) ==
  \A i, j \in 1..Len(Overdue) :
     i < j => /\ weights[p[i]] * bal[p[j]] <= weights[p[j]] * bal[p[i]]
              /\ (bal[p[i]] = 0 /\ bal[p[j]] = 0) =>
                    Position(Overdue, p[i]) < Position(Overdue, p[j])

RECURSIVE Before(_, _, _)
Before(cap, p, i) == IF i = 1 THEN 0 ELSE cap[p[i - 1]] + Before(cap, p, i - 1)

\* Coverage taken from each bucket by the vertex that fills in order p.
Taken(bal, target_current, max_120p_ratio, caps, p) ==
  LET cap == Capacity(bal, target_current, max_120p_ratio, caps)
      need == Demand(bal, target_current, max_120p_ratio, caps)
  IN [b \in OverdueSet |->
        Min(cap[b], Max(0, need - Before(cap, p, Position(p, b))))]

\* r[b].solution_value() as a rational [n, d].
Solution(bal, target_current, max_120p_ratio, caps, p) ==
  LET x == Taken(bal, target_current, max_120p_ratio, caps, p)
      k == target_current.d * max_120p_ratio.d
  IN [b \in OverdueSet |->
        IF bal[b] = 0 THEN [n |-> 0, d |-> 1]
        ELSE IF b = "120_plus"
        THEN [n |-> target_current.d * LowerNum(bal, max_120p_ratio, caps) + x[b],
              d |-> k * bal[b]]
        ELSE [n |-> x[b], d |-> k * bal[b]]]

\* projected_current.solution_value() / total as a rational [n, d].
ProjectedRatio(bal, target_current, max_120p_ratio, caps, p) ==
  LET x == Taken(bal, target_current, max_120p_ratio, caps, p)
      k == target_current.d * max_120p_ratio.d
  IN [n |-> k * bal["current"] + SumOver(x, OverdueSet)
              + target_current.d * LowerNum(bal, max_120p_ratio, caps),
      d |-> k * Total(bal)]

NoError == [type |-> "None", message |-> "", context |-> <<>>]
InfeasibleError ==
  [type |-> "RuntimeError", message |-> "No feasible plan for given targets.",
   context |-> <<>>]
KeyError(k) == [type |-> "KeyError", message |-> k, context |-> <<>>]
ZeroDivisionError ==
  [type |-> "ZeroDivisionError", message |-> "float division by zero",
   context |-> <<>>]

Raise(e, solved) ==
  [status |-> "raised", error |-> e, rec |-> <<>>, kpi |-> <<>>, solved |-> solved]

\* rec = {k: round(r[k].solution_value(), 4) for k in r}
Rec(bal, target_current, max_120p_ratio, caps, p) ==
  LET r == Solution(bal, target_current, max_120p_ratio, caps, p)
  IN [b \in OverdueSet |-> Round(r[b].n, r[b].d, FracDigits)]

\* The kpi dict, from the solution and from the rounded plan rec.
Kpi(bal, rec, projected) ==
  [current_ratio |-> Round(projected.n, projected.d, FracDigits),
   pdr_ratio |->
     Round(FMul(bal["120_plus"], FracScale - rec["120_plus"]), Total(bal), FracDigits),
   cash_recovered |->
     Round(SumOver([b \in OverdueSet |-> FMul(bal[b], rec[b])], OverdueSet),
           MoneyScale, CashDigits) * Pow10(FracDigits - CashDigits)]

\* optimise_month(bal, target_current=, max_120p_ratio=, max_120p_amount=,
\* weights=): caps is {} for max_120p_amount=None and {a} otherwise; p is the
\* order of the vertex the solver returns.
optimise_month(bal, target_current, max_120p_ratio, caps, weights, p) ==
  IF \E i \in 1..Len(RequiredKeys) : RequiredKeys[i] \notin DOMAIN bal
  THEN LET i == CHOOSE i \in 1..Len(RequiredKeys) :
                  /\ RequiredKeys[i] \notin DOMAIN bal
                  /\ \A j \in 1..(i - 1) : RequiredKeys[j] \in DOMAIN bal
       IN Raise(KeyError(RequiredKeys[i]), FALSE)
  ELSE IF ~Feasible(bal, target_current, max_120p_ratio, caps)
  THEN Raise(InfeasibleError, TRUE)
  ELSE IF Total(bal) = 0
  THEN Raise(ZeroDivisionError, TRUE)
  ELSE LET rec == Rec(bal, target_current, max_120p_ratio, caps, p)
       IN [status |-> "ok", error |-> NoError, rec |-> rec,
           kpi |-> Kpi(bal, rec,
                       ProjectedRatio(bal, target_current, max_120p_ratio, caps, p)),
           solved |-> TRUE]

\* The vertices the solver may return for these inputs.
Vertices(bal, weights) ==
  IF FiveBuckets \subseteq DOMAIN bal
  THEN {p \in Orders : CostOrdered(bal, weights, p)}
  ELSE {Overdue}

\* ------------------------------------------------------------ roll_forward
roll_forward(bal, rec, fresh_sales) ==
  LET new120 == FMul(bal["120_plus"], FracScale - rec["120_plus"])
                  + FMul(bal["91_120"], FracScale - rec["91_120"])
      new91 == FMul(bal["61_90"], FracScale - rec["61_90"])
      new61 == FMul(bal["31_60"], FracScale - rec["31_60"])
      new31 == 0
      newcur == bal["current"] + fresh_sales
  IN [k \in FiveBuckets |->
        CASE k = "current" -> newcur
          [] k = "31_60" -> new31
          [] k = "61_90" -> new61
          [] k = "91_120" -> new91
          [] OTHER -> new120]

\* ------------------------------------------------------------------- state
VARIABLES
  balances,         \* the caller's balances dict
  months,           \* simulate's months argument
  target_current,   \* keyword argument, a rational [n, d]
  max_120p_ratio,   \* keyword argument, a rational [n, d]
  max_120p_amount,  \* {} for None, {a} for an absolute cap of a quanta
  weights,          \* the weights argument of optimise_month
  pc,               \* where the running call stands
  m,                \* simulate's loop variable
  bal,              \* simulate's local bal
  history,          \* simulate's local history
  error,            \* the exception that left the call, NoError if none
  solves,           \* number of solver.Solve() invocations so far
  calls,            \* direct optimise_month calls made on these inputs
  rf                \* direct roll_forward calls made on these balances

vars == <<balances, months, target_current, max_120p_ratio, max_120p_amount,
          weights, pc, m, bal, history, error, solves, calls, rf>>

\* ---------------------------------------------------------------- simulate
\* The failing period skipped instead of the exception leaving simulate.
simulate_step_skip(h, b, month, out) ==
  IF out.status = "ok"
  THEN [pc |-> "loop",
        history |-> Append(h, [month |-> month, balances |-> b,
                               recoveries |-> out.rec, kpi |-> out.kpi]),
        bal |-> roll_forward(b, out.rec, out.kpi.cash_recovered),
        m |-> month + 1,
        error |-> NoError]
  ELSE [pc |-> "loop", history |-> h, bal |-> b, m |-> month + 1,
        error |-> NoError]

\* The record appended after the roll-forward, holding the rolled balances.
simulate_step_late(h, b, month, out) ==
  IF out.status = "ok"
  THEN [pc |-> "loop",
        history |-> Append(h, [month |-> month,
                               balances |-> roll_forward(b, out.rec,
                                                         out.kpi.cash_recovered),
                               recoveries |-> out.rec, kpi |-> out.kpi]),
        bal |-> roll_forward(b, out.rec, out.kpi.cash_recovered),
        m |-> month + 1,
        error |-> NoError]
  ELSE [pc |-> "raised", history |-> h, bal |-> b, m |-> month,
        error |-> out.error]

\* One pass of the loop body, given what optimise_month did: append the
\* record, roll forward, or let the exception leave simulate.
simulate_step(h, b, month, out) ==
  IF out.status = "ok"
  THEN [pc |-> "loop",
        history |-> Append(h, [month |-> month, balances |-> b,
                               recoveries |-> out.rec, kpi |-> out.kpi]),
        bal |-> roll_forward(b, out.rec, out.kpi.cash_recovered),
        m |-> month + 1,
        error |-> NoError]
  ELSE [pc |-> "raised", history |-> h, bal |-> b, m |-> month,
        error |-> out.error]

\* ------------------------------------------------------------------ inputs
\* Whole currency units per bucket, at most MaxTotal units in all.
Amounts == {u * MoneyScale : u \in 0..MaxTotal}
FiveInputs == {b \in [FiveBuckets -> Amounts] : Total(b) <= MaxTotal * MoneyScale}
SixInputs == {b \in [SixBuckets -> Amounts] : Total(b) <= MaxTotal * MoneyScale}
MissingInputs == {[k \in FiveBuckets \ {b} |-> MoneyScale] : b \in FiveBuckets}
TargetInputs == {[n |-> k, d |-> TDen] : k \in 0..(TDen + 1)}
RatioInputs == {[n |-> k, d |-> TDen] : k \in 0..TDen}
UniformWeights == [b \in OverdueSet |-> 1]
Fractions == {0, FracScale \div 2, FracScale}

\* The target current / total of these balances, when it is defined.
OwnRatio(b) ==
  IF FiveBuckets \subseteq DOMAIN b /\ Total(b) > 0
  THEN {[n |-> b["current"] \div MoneyScale, d |-> Total(b) \div MoneyScale]}
  ELSE {}

Idle ==
  /\ months = 0
  /\ m = 1
  /\ bal = balances
  /\ history = <<>>
  /\ error = NoError
  /\ solves = 0

\* ------------------------------------------------- specification: simulate
Init ==
  /\ balances \in FiveInputs \cup SixInputs \cup MissingInputs
  /\ months \in 0..MaxMonths
  /\ target_current \in TargetInputs
  /\ max_120p_ratio \in RatioInputs
  /\ max_120p_amount = {}
  /\ weights = DefaultWeights
  /\ pc = "loop"
  /\ m = 1
  /\ bal = balances
  /\ history = <<>>
  /\ error = NoError
  /\ solves = 0
  /\ calls = <<>>
  /\ rf = <<>>

SimulateIter ==
  /\ pc = "loop"
  /\ m <= months
  /\ \E p \in Vertices(bal, DefaultWeights) :
       LET out == optimise_month(bal, target_current, max_120p_ratio, {},
                                 DefaultWeights, p)
           nxt == simulate_step(history, bal, m, out)
       IN /\ pc' = nxt.pc
          /\ history' = nxt.history
          /\ bal' = nxt.bal
          /\ m' = nxt.m
          /\ error' = nxt.error
          /\ solves' = solves + (IF out.solved THEN 1 ELSE 0)
  /\ UNCHANGED <<balances, months, target_current, max_120p_ratio,
                 max_120p_amount, weights, calls, rf>>

SimulateReturn ==
  /\ pc = "loop"
  /\ m > months
  /\ pc' = "returned"
  /\ UNCHANGED <<balances, months, target_current, max_120p_ratio,
                 max_120p_amount, weights, m, bal, history, error, solves,
                 calls, rf>>

Next == SimulateIter \/ SimulateReturn

Spec == Init /\ [][Next]_vars

\* ------------------------------------------- specification: optimise_month
InitOpt ==
  /\ balances \in FiveInputs \cup SixInputs
  /\ target_current \in TargetInputs \cup OwnRatio(balances)
  /\ max_120p_ratio \in RatioInputs
  /\ max_120p_amount \in {{}, {0}, {MoneyScale}}
  /\ weights \in {DefaultWeights, UniformWeights}
  /\ pc = "optimise"
  /\ Idle
  /\ calls = <<>>
  /\ rf = <<>>

\* optimise_month called on the inputs, once with target_current and once
\* more with a target at least as high, everything else held fixed.
OptimiseMonth ==
  /\ pc = "optimise"
  /\ Len(calls) < 2
  /\ \E t \in TargetInputs \cup OwnRatio(balances), p \in Vertices(balances, weights) :
       /\ Len(calls) = 0 => t = target_current
       /\ Len(calls) = 1 => t.n * target_current.d >= target_current.n * t.d
       /\ calls' = Append(calls,
            [target_current |-> t,
             out |-> optimise_month(balances, t, max_120p_ratio,
                                    max_120p_amount, weights, p)])
  /\ UNCHANGED <<balances, months, target_current, max_120p_ratio,
                 max_120p_amount, weights, pc, m, bal, history, error, solves, rf>>

NextOpt == OptimiseMonth

SpecOpt == InitOpt /\ [][NextOpt]_vars

\* --------------------------------------------- specification: roll_forward
InitRoll ==
  /\ balances \in FiveInputs \cup SixInputs
  /\ target_current \in {[n |-> 0, d |-> TDen]}
  /\ max_120p_ratio \in {[n |-> TDen, d |-> TDen]}
  /\ max_120p_amount = {}
  /\ weights = DefaultWeights
  /\ pc = "roll"
  /\ Idle
  /\ calls = <<>>
  /\ rf = <<>>

\* sum(bal[b] * rec[b] for b in rec)
Collected(b, rec) == SumOver([k \in OverdueSet |-> FMul(b[k], rec[k])], OverdueSet)

\* roll_forward called on the balances with some plan and some fresh sales.
RollForward ==
  /\ pc = "roll"
  /\ Len(rf) < 1
  /\ \E rec \in [OverdueSet -> Fractions] :
       \E fresh_sales \in {Collected(balances, rec), 0, MoneyScale} :
          rf' = Append(rf, [rec |-> rec, fresh_sales |-> fresh_sales,
                            out |-> roll_forward(balances, rec, fresh_sales)])
  /\ UNCHANGED <<balances, months, target_current, max_120p_ratio,
                 max_120p_amount, weights, pc, m, bal, history, error, solves,
                 calls>>

NextRoll == RollForward

SpecRoll == InitRoll /\ [][NextRoll]_vars

\* ================================================================== claims
Units(x) == x \div MoneyScale
Frac(rec, b) == IF b \in DOMAIN rec THEN rec[b] ELSE 0
Uncollected(b, rec, k) == FMul(b[k], FracScale - Frac(rec, k))

\* C1 (SpecRoll): when roll_forward is given fresh_sales equal to the cash
\* collected, sum over overdue buckets of balance x fraction, the balances it
\* returns add up to what the input balances add up to, with or without a
\* "1_30" bucket.
C1_Conservation ==
  \A i \in 1..Len(rf) :
     rf[i].fresh_sales = Collected(balances, rf[i].rec)
       => Total(rf[i].out) = Total(balances)

\* C2 (SpecOpt): every successful solve meets both constraints within
\* Epsilon: the reported current_ratio is at least target_current - Epsilon,
\* and the uncollected 120+ balance computed from the rounded fraction,
\* over total exposure, is at most max_120p_ratio + Epsilon and at most
\* max_120p_amount when that cap is supplied.
C2_ConstraintsHold ==
  \A i \in 1..Len(calls) :
     LET c == calls[i]
         unc == Uncollected(balances, c.out.rec, "120_plus")
     IN c.out.status = "ok" =>
          /\ (Epsilon.d \div FracScale) * c.out.kpi.current_ratio * c.target_current.d
               + Epsilon.n * c.target_current.d
                >= c.target_current.n * Epsilon.d
          /\ (Epsilon.d \div FracScale) * unc * max_120p_ratio.d
                <= max_120p_ratio.n * Units(Total(balances)) * Epsilon.d
                     + Epsilon.n * max_120p_ratio.d * Units(Total(balances))
          /\ \A a \in max_120p_amount : unc <= a

InfeasibleNow ==
  /\ FiveBuckets \subseteq DOMAIN bal
  /\ ~Feasible(bal, target_current, max_120p_ratio, {})

\* C3 (Spec): when the linear program of period m is infeasible, simulate's
\* next step is the RuntimeError leaving the call, with no record appended,
\* no roll-forward and exactly one more solve; nothing happens after the
\* error; and a call that returns has a record for every one of its months.
C3_HaltsAtInfeasible ==
  /\ [][(pc = "loop" /\ m <= months /\ InfeasibleNow)
          => /\ pc' = "raised"
             /\ error' = InfeasibleError
             /\ history' = history
             /\ bal' = bal
             /\ m' = m
             /\ solves' = solves + 1]_vars
  /\ [][pc = "raised" => vars' = vars]_vars
  /\ [](pc = "returned" => Len(history) = months)
  /\ [](pc = "raised" => (Len(history) = m - 1 /\ solves <= m))

C3_Witness ==
  /\ pc = "raised"
  /\ error = InfeasibleError
  /\ months >= 2
  /\ Len(history) = m - 1
  /\ solves = m

\* C4 (Spec): the error that leaves simulate for an infeasible period carries
\* the index of the failing period, the two targets and the total exposure.
C4_ErrorCarriesContext ==
  (pc = "raised" /\ error.type = "RuntimeError")
    => /\ {"period", "target_current", "max_120p_ratio", "total"}
            \subseteq DOMAIN error.context
       /\ error.context["period"] = m
       /\ error.context["target_current"] = target_current
       /\ error.context["max_120p_ratio"] = max_120p_ratio
       /\ error.context["total"] = Total(bal)

Malformed ==
  \/ ~(FiveBuckets \subseteq DOMAIN balances)
  \/ Total(balances) <= 0
  \/ target_current.n < 0
  \/ target_current.n > target_current.d
  \/ max_120p_ratio.n < 0
  \/ max_120p_ratio.n > max_120p_ratio.d
  \/ months < 1

\* C5 (Spec): a simulate call on malformed input (a required bucket missing,
\* zero total, a target outside [0,1], a period count below 1) never solves,
\* never appends a record, never returns, and ends in a validation error.
C5_ValidationFirst ==
  Malformed =>
    /\ solves = 0
    /\ history = <<>>
    /\ pc # "returned"
    /\ pc = "raised" => error.type = "ValidationError"

SolvableNow ==
  /\ FiveBuckets \subseteq DOMAIN bal
  /\ Total(bal) > 0
  /\ Feasible(bal, target_current, max_120p_ratio, {})

C7_AlreadyMet ==
  \A i \in 1..Len(calls) :
     LET c == calls[i]
     IN (/\ Total(balances) > 0
         /\ c.target_current.n * Total(balances)
              = c.target_current.d * balances["current"]
         /\ max_120p_ratio.n = max_120p_ratio.d
         /\ max_120p_amount = {})
        => /\ c.out.status = "ok"
           /\ \A b \in OverdueSet : c.out.rec[b] = 0
           /\ c.out.kpi.cash_recovered = 0

C7_Witness ==
  /\ Len(calls) >= 1
  /\ balances["current"] > 0
  /\ balances["31_60"] > 0
  /\ balances["120_plus"] > 0
  /\ calls[1].target_current.n * Total(balances)
       = calls[1].target_current.d * balances["current"]
  /\ max_120p_ratio.n = max_120p_ratio.d
  /\ max_120p_amount = {}
  /\ calls[1].out.status = "ok"
  /\ calls[1].out.kpi.cash_recovered = 0

FullTarget(c) ==
  /\ c.target_current.n = c.target_current.d
  /\ Total(balances) - balances["current"] > 0
  /\ max_120p_amount = {}

\* C8 as stated (SpecOpt): with target_current = 1, a non-zero overdue
\* balance and a max_120p_ratio strictly between 0 and 1, optimise_month ends
\* in the infeasibility error.
C8_AlwaysInfeasible ==
  \A i \in 1..Len(calls) :
     (/\ FullTarget(calls[i])
      /\ 0 < max_120p_ratio.n
      /\ max_120p_ratio.n < max_120p_ratio.d)
       => calls[i].out.error = InfeasibleError

\* C8 as amended (SpecOpt): with target_current = 1, a non-zero overdue
\* balance and no absolute cap, optimise_month ends in the infeasibility
\* error exactly when the balances hold a positive "1_30" amount; otherwise
\* it returns the plan that collects every non-empty overdue bucket in full,
\* with current_ratio 1.
C8_FullCollection ==
  \A i \in 1..Len(calls) :
     LET c == calls[i]
         stuck == "1_30" \in DOMAIN balances /\ balances["1_30"] > 0
     IN FullTarget(c) =>
          /\ stuck => c.out.error = InfeasibleError
          /\ ~stuck =>
               /\ c.out.status = "ok"
               /\ \A b \in OverdueSet :
                    c.out.rec[b] = IF balances[b] > 0 THEN FracScale ELSE 0
               /\ c.out.kpi.current_ratio = FracScale

C8_Witness ==
  /\ Len(calls) >= 1
  /\ DOMAIN balances = FiveBuckets
  /\ Units(balances["current"]) = 2
  /\ Units(balances["31_60"]) = 1
  /\ Total(balances) = 3 * MoneyScale
  /\ FullTarget(calls[1])
  /\ 0 < max_120p_ratio.n
  /\ max_120p_ratio.n < max_120p_ratio.d
  /\ calls[1].out.status = "ok"
  /\ calls[1].out.rec["31_60"] = FracScale

BothSolved ==
  /\ Len(calls) = 2
  /\ calls[1].out.status = "ok"
  /\ calls[2].out.status = "ok"

NoTies ==
  \A a, b \in OverdueSet :
     (a # b /\ balances[a] > 0 /\ balances[b] > 0)
       => weights[a] * balances[b] # weights[b] * balances[a]

C10_AgeingRule ==
  \A i \in 1..Len(rf) :
     LET c == rf[i]
         unc(k) == Uncollected(balances, c.rec, k)
     IN /\ c.out["120_plus"] = unc("120_plus") + unc("91_120")
        /\ c.out["91_120"] = unc("61_90")
        /\ c.out["61_90"] = unc("31_60")
        /\ c.out["31_60"] = IF "1_30" \in DOMAIN balances THEN unc("1_30") ELSE 0
        /\ "1_30" \in DOMAIN c.out => c.out["1_30"] = 0
        /\ c.out["current"] = balances["current"] + c.fresh_sales

====
